---- MODULE Spec2Model ----
(***************************************************************************)
(* Quote-to-order workflow of the Motion print shop (src/app.py): the cart *)
(* store, the quote lifecycle (request_quote, admin_quote_detail,          *)
(* accept_quote, reject_quote), the order it materialises and the customer *)
(* statistics it updates.                                                  *)
(*                                                                         *)
(* The relational store is the tables users, cart_items, quotes, orders    *)
(* and products.  Money is modelled in whole currency units and datetimes as     *)
(* whole days on one clock (now); a nullable column holds None or Some(v). *)
(***************************************************************************)
EXTENDS Integers, Sequences, FiniteSets, TLC

VARIABLES
    users,       \* users table: customer id -> row (src/app.py:52-66)
    cart_items,  \* cart_items table, rows as a scan returns them (src/app.py:160-180)
    next_cart_id,\* primary-key sequence of cart_items
    quotes,      \* quote_requests table, row i has id i (src/app.py:189-219)
    orders,      \* orders table, row i has id i (src/app.py:225-261)
    added_products, \* products rows the admin added (src/app.py:125-137)
    uploads,     \* design files in UPLOAD_FOLDER, named by the row they came with
    now,         \* datetime.now(timezone.utc), in days
    sess,        \* per worker: what the request in flight has loaded and pends
    response     \* what the last completed request answered

db == <<users, cart_items, next_cart_id, quotes, orders, added_products>>
vars == <<users, cart_items, next_cart_id, quotes, orders, added_products,
         uploads, now, sess, response>>

---------------------------------------------------------------------------
(* Bounds of the model *)

MaxCartItems == 2    \* cart rows ever inserted
MaxQuotes == 1       \* quote_requests rows
MaxSubmits == 2      \* quote_requests rows where submits are taken step by step
MaxOrders == 3       \* orders rows
MaxContactOrders == 1 \* orders rows that come from the contact form
MaxTime == 1         \* days the clock advances
MaxTotalOrders == 51 \* total_orders of a customer, where tiers are explored

Customers == {1, 2}
Workers == {1, 2}
Quantities == {0, 1, 2}    \* request.form['quantity']
QuotedPrices == {2}        \* request.form['quoted_price']
Discounts == {1, 4}        \* request.form['discount_applied']
DeliveryFees == {1}        \* request.form['delivery_fee']
ValidDays == {0, 1}        \* request.form['valid_days']
PriorOrders == <<4, 3>>    \* total_orders each customer starts the window with
SubmitNotes == "rush job"  \* request.form['notes'] of a submit
Reasons == {"too dear"}    \* request.form['reason'] of a reject
MaxProducts == 1           \* products rows the admin adds
Guest == 0                 \* a visitor who is not logged in
Actors == Customers \cup {Guest}
OrderStatuses == {"Confirmed", "Cancelled", "Shipped"}  \* request.form['status']
NewProducts == {[name |-> "Roll-Up Banner", min_quantity |-> 1, base_price |-> 4]}

None == << >>
Some(v) == <<v>>
Val(o) == o[1]

---------------------------------------------------------------------------
(* Catalogue: two products of create_sample_products, scaled down *)

products ==
    <<[name |-> "Roll-Up Banner", min_quantity |-> 1, base_price |-> 3],
      [name |-> "Polo Shirts",    min_quantity |-> 2, base_price |-> 1]>>

\* the products table: the sample rows and the rows admin_add_product added
catalogue == products \o added_products

Products == DOMAIN products

---------------------------------------------------------------------------
(* User.update_tier and User.discount_percent *)

\* tier_of with the thresholds themselves left in the lower tier
tier_of_strict(total_orders) ==
    IF total_orders > 50 THEN "VIP"
    ELSE IF total_orders > 30 THEN "Gold"
    ELSE IF total_orders > 15 THEN "Silver"
    ELSE IF total_orders > 5 THEN "Bronze"
    ELSE "New"

tier_of(total_orders) ==
    IF total_orders >= 50 THEN "VIP"
    ELSE IF total_orders >= 30 THEN "Gold"
    ELSE IF total_orders >= 15 THEN "Silver"
    ELSE IF total_orders >= 5 THEN "Bronze"
    ELSE "New"

update_tier(user) == [user EXCEPT !.customer_tier = tier_of(user.total_orders)]

discount_percent(user) ==
    CASE user.customer_tier = "New" -> 0
      [] user.customer_tier = "Bronze" -> 5
      [] user.customer_tier = "Silver" -> 10
      [] user.customer_tier = "Gold" -> 15
      [] user.customer_tier = "VIP" -> 20
      [] OTHER -> 0

---------------------------------------------------------------------------
(* Helpers on sequences of rows *)

RECURSIVE SelectRows(_, _)
SelectRows(rows, u) ==
    IF rows = << >> THEN << >>
    ELSE IF Head(rows).user_id = u
         THEN <<Head(rows)>> \o SelectRows(Tail(rows), u)
         ELSE SelectRows(Tail(rows), u)

RECURSIVE RemoveRows(_, _)
RemoveRows(rows, ids) ==
    IF rows = << >> THEN << >>
    ELSE IF Head(rows).id \in ids
         THEN RemoveRows(Tail(rows), ids)
         ELSE <<Head(rows)>> \o RemoveRows(Tail(rows), ids)

Index(rows, id) == CHOOSE i \in DOMAIN rows : rows[i].id = id

CartIds == {cart_items[i].id : i \in DOMAIN cart_items}

\* the answer of a request: "ok" (the success flash and redirect), "403"
\* (abort(403)) or the refusal the handler flashes
Respond(result) == response' = result

---------------------------------------------------------------------------
(* Initial state: empty cart, no quotes, no orders in the window; each     *)
(* customer has the order count of their earlier conversions and the tier  *)
(* update_tier gave them (customer 1 is one order short of Bronze,         *)
(* customer 2 two).                                                        *)

Init ==
    /\ users = [u \in Customers |->
                  update_tier([total_orders |-> PriorOrders[u], total_spent |-> 0,
                               customer_tier |-> "New"])]
    /\ cart_items = << >>
    /\ next_cart_id = 1
    /\ quotes = << >>
    /\ orders = << >>
    /\ added_products = << >>
    /\ uploads = {}
    /\ now = 0
    /\ sess = [w \in Workers |-> << >>]
    /\ response = "ok"

---------------------------------------------------------------------------
(* Cart store *)

\* the handlers storing the quantity as it was sent
clamp_quantity_off(quantity, product_id) == quantity

\* the quantity clamp of add_to_cart and update_cart_item
clamp_quantity(quantity, product_id) ==
    IF quantity < catalogue[product_id].min_quantity
    THEN catalogue[product_id].min_quantity
    ELSE quantity

\* upload: the form carries a design file of an allowed type, which is saved
\* under a fresh name (here the id the row gets)
add_to_cart(u, product_id, quantity, upload) ==
    /\ next_cart_id <= MaxCartItems
    /\ cart_items' = Append(cart_items,
                            [id |-> next_cart_id, user_id |-> u,
                             product_id |-> product_id,
                             quantity |-> clamp_quantity(quantity, product_id),
                             design_file |-> IF upload THEN Some(next_cart_id)
                                             ELSE None])
    /\ uploads' = IF upload THEN uploads \cup {next_cart_id} ELSE uploads
    /\ next_cart_id' = next_cart_id + 1
    /\ Respond("ok")
    /\ UNCHANGED <<users, quotes, orders, added_products, now, sess>>

\* The row after an UPDATE.  No query on cart_items has an ORDER BY, so rows
\* come back as the store holds them: SQLite (the default of config.py)
\* rewrites the row in place, PostgreSQL (DATABASE_URL) writes the new row
\* version behind the rows already in the table.
store_update(rows, i, row) ==
    IF row = rows[i]
    THEN {rows}    \* nothing changed: the session issues no UPDATE
    ELSE {[rows EXCEPT ![i] = row], Append(RemoveRows(rows, {row.id}), row)}

update_cart_item(u, item_id, quantity) ==
    /\ item_id \in CartIds
    /\ LET i == Index(cart_items, item_id) IN
        IF cart_items[i].user_id # u
        THEN /\ Respond("403")
             /\ UNCHANGED cart_items
        ELSE /\ cart_items' \in store_update(cart_items, i,
                                 [cart_items[i] EXCEPT !.quantity =
                                     clamp_quantity(quantity, cart_items[i].product_id)])
             /\ Respond("ok")
    /\ UNCHANGED <<users, next_cart_id, quotes, orders, added_products, uploads, now, sess>>

\* remove_from_cart giving up when the design file cannot be deleted
remove_from_cart_strict(u, item_id, removable) ==
    /\ item_id \in CartIds
    /\ LET i == Index(cart_items, item_id) IN
        IF cart_items[i].user_id # u
        THEN /\ Respond("403")
             /\ UNCHANGED <<cart_items, uploads>>
        ELSE IF cart_items[i].design_file # None /\ ~removable
        THEN /\ Respond("500")
             /\ UNCHANGED <<cart_items, uploads>>
        ELSE /\ uploads' = IF cart_items[i].design_file # None
                           THEN uploads \ {Val(cart_items[i].design_file)}
                           ELSE uploads
             /\ cart_items' = RemoveRows(cart_items, {item_id})
             /\ Respond("ok")
    /\ UNCHANGED <<users, next_cart_id, quotes, orders, added_products, now, sess>>

\* removable: os.remove of the row's design file succeeds; when it raises,
\* the bare except passes and the file stays where it is
remove_from_cart(u, item_id, removable) ==
    /\ item_id \in CartIds
    /\ LET i == Index(cart_items, item_id) IN
        IF cart_items[i].user_id # u
        THEN /\ Respond("403")
             /\ UNCHANGED <<cart_items, uploads>>
        ELSE /\ uploads' = IF cart_items[i].design_file # None /\ removable
                           THEN uploads \ {Val(cart_items[i].design_file)}
                           ELSE uploads
             /\ cart_items' = RemoveRows(cart_items, {item_id})
             /\ Respond("ok")
    /\ UNCHANGED <<users, next_cart_id, quotes, orders, added_products, now, sess>>

---------------------------------------------------------------------------
(* Quote lifecycle *)

\* CartItem.query.filter_by(user_id=u).all(): the customer's rows, in the
\* order the store holds them
query_cart(u) == SelectRows(cart_items, u)

\* one entry of items_data
serialize(item) ==
    [product_id |-> item.product_id,
     product_name |-> catalogue[item.product_id].name,
     quantity |-> item.quantity,
     design_file |-> item.design_file,
     base_price |-> catalogue[item.product_id].base_price]

\* new_quote with the total filled in from the start
new_quote_totalled(u, rows) ==
    [user_id |-> u,
     items_json |-> [i \in DOMAIN rows |-> serialize(rows[i])],
     status |-> "Pending",
     quoted_price |-> None,
     discount_applied |-> 0,
     delivery_fee |-> 0,
     total_price |-> Some(0),
     valid_until |-> None,
     responded_at |-> None,
     customer_notes |-> SubmitNotes,
     order_id |-> None]

new_quote(u, rows) ==
    [user_id |-> u,
     items_json |-> [i \in DOMAIN rows |-> serialize(rows[i])],
     status |-> "Pending",
     quoted_price |-> None,
     discount_applied |-> 0,
     delivery_fee |-> 0,
     total_price |-> None,
     valid_until |-> None,
     responded_at |-> None,
     customer_notes |-> SubmitNotes,
     order_id |-> None]

\* request_quote without its empty-cart return
request_quote_unchecked(u) ==
    /\ LET rows == query_cart(u) IN
         /\ Len(quotes) < MaxQuotes
         /\ quotes' = Append(quotes, new_quote(u, rows))
         /\ cart_items' = RemoveRows(cart_items, {rows[i].id : i \in DOMAIN rows})
         /\ Respond("ok")
    /\ UNCHANGED <<users, next_cart_id, orders, added_products, uploads, now, sess>>

request_quote(u) ==
    /\ LET rows == query_cart(u) IN
         IF rows = << >>
         THEN /\ Respond("cart_empty")
              /\ UNCHANGED <<cart_items, quotes>>
         ELSE /\ Len(quotes) < MaxQuotes
              /\ quotes' = Append(quotes, new_quote(u, rows))
              /\ cart_items' = RemoveRows(cart_items,
                                          {rows[i].id : i \in DOMAIN rows})
              /\ Respond("ok")
    /\ UNCHANGED <<users, next_cart_id, orders, added_products, uploads, now, sess>>

\* priced with the delivery fee left out of the total
priced_without_fee(quote, quoted_price, discount_applied, delivery_fee, valid_days) ==
    [quote EXCEPT !.quoted_price = Some(quoted_price),
                  !.discount_applied = discount_applied,
                  !.delivery_fee = delivery_fee,
                  !.total_price = Some(quoted_price - discount_applied),
                  !.valid_until = Some(now + valid_days),
                  !.status = "Quoted"]

\* send_quote that also writes the quoted price into the snapshot
priced_into_snapshot(quote, quoted_price, discount_applied, delivery_fee, valid_days) ==
    [quote EXCEPT !.quoted_price = Some(quoted_price),
                  !.discount_applied = discount_applied,
                  !.delivery_fee = delivery_fee,
                  !.total_price = Some(quoted_price - discount_applied + delivery_fee),
                  !.valid_until = Some(now + valid_days),
                  !.status = "Quoted",
                  !.items_json = [i \in DOMAIN @ |-> [@[i] EXCEPT !.base_price = quoted_price]]]

\* the row admin_quote_detail writes on action = send_quote
priced(quote, quoted_price, discount_applied, delivery_fee, valid_days) ==
    [quote EXCEPT !.quoted_price = Some(quoted_price),
                  !.discount_applied = discount_applied,
                  !.delivery_fee = delivery_fee,
                  !.total_price = Some(quoted_price - discount_applied + delivery_fee),
                  !.valid_until = Some(now + valid_days),
                  !.status = "Quoted"]

admin_quote_detail(q, quoted_price, discount_applied, delivery_fee, valid_days) ==
    /\ q \in DOMAIN quotes
    /\ quotes' = [quotes EXCEPT ![q] =
                     priced(@, quoted_price, discount_applied, delivery_fee, valid_days)]
    /\ Respond("ok")
    /\ UNCHANGED <<users, cart_items, next_cart_id, orders, added_products, uploads, now, sess>>

\* expired with the deadline day itself counted as passed
expired_on_deadline(quote) == quote.valid_until # None /\ Val(quote.valid_until) <= now

\* quote.valid_until and quote.valid_until < datetime.now(timezone.utc)
expired(quote) == quote.valid_until # None /\ Val(quote.valid_until) < now

\* the Order accept_quote builds from the quote it loaded
new_order(u, q, quote) ==
    [user_id |-> Some(u),
     quote_request_id |-> Some(q),
     items_json |-> quote.items_json,
     subtotal |-> quote.quoted_price,
     discount |-> quote.discount_applied,
     delivery_fee |-> quote.delivery_fee,
     total |-> quote.total_price,
     status |-> "Confirmed"]

\* credited without the call of update_tier
credited_without_tier(user, quote) ==
    [user EXCEPT !.total_orders = @ + 1,
                 !.total_spent = @ + Val(quote.total_price)]

\* current_user after total_orders += 1, total_spent += total_price, update_tier()
credited(user, quote) ==
    update_tier([user EXCEPT !.total_orders = @ + 1,
                             !.total_spent = @ + Val(quote.total_price)])

\* the value an UPDATE leaves in a column: the session sends only the
\* attributes whose value differs from the one it loaded
written(stored, loaded, assigned) == IF assigned = loaded THEN stored ELSE assigned

\* accept_quote for customer u on the quote row and user row its session
\* loaded; the commit writes the columns the handler changed.  order.id is
\* read before the INSERT is flushed, so quote.order_id is assigned None.
accept_body(u, q, quote, user) ==
    IF quote.user_id # u
    THEN /\ Respond("403")
         /\ UNCHANGED <<db, uploads>>
    ELSE IF quote.status # "Quoted"
    THEN /\ Respond("cannot_be_accepted")
         /\ UNCHANGED <<db, uploads>>
    ELSE IF expired(quote)
    THEN /\ quotes' = [quotes EXCEPT ![q].status = "Expired"]
         /\ Respond("expired")
         /\ UNCHANGED <<users, cart_items, next_cart_id, orders, added_products, uploads>>
    ELSE /\ Len(orders) < MaxOrders
         /\ orders' = Append(orders, new_order(u, q, quote))
         /\ quotes' = [quotes EXCEPT ![q].status = "Converted",
                                     ![q].order_id = None,
                                     ![q].responded_at = Some(now)]
         /\ users' = [users EXCEPT ![u] =
                         [@ EXCEPT !.total_orders =
                                       written(@, user.total_orders,
                                               credited(user, quote).total_orders),
                                   !.total_spent =
                                       written(@, user.total_spent,
                                               credited(user, quote).total_spent),
                                   !.customer_tier =
                                       written(@, user.customer_tier,
                                               credited(user, quote).customer_tier)]]
         /\ Respond("ok")
         /\ UNCHANGED <<cart_items, next_cart_id, added_products, uploads>>

\* a request that runs to completion with no other request in between
accept_quote(u, q) ==
    /\ q \in DOMAIN quotes
    /\ accept_body(u, q, quotes[q], users[u])
    /\ UNCHANGED <<now, sess>>

\* reject_quote without the ownership test
reject_quote_unowned(u, q, reason) ==
    /\ q \in DOMAIN quotes
    /\ IF quotes[q].status # "Quoted"
       THEN /\ Respond("cannot_be_rejected")
            /\ UNCHANGED quotes
       ELSE /\ quotes' = [quotes EXCEPT ![q].status = "Rejected",
                                        ![q].responded_at = Some(now),
                                        ![q].customer_notes = reason]
            /\ Respond("ok")
    /\ UNCHANGED <<users, cart_items, next_cart_id, orders, added_products, uploads, now, sess>>

\* reject_quote without the status test
reject_quote_any_status(u, q, reason) ==
    /\ q \in DOMAIN quotes
    /\ IF quotes[q].user_id # u
       THEN /\ Respond("403")
            /\ UNCHANGED quotes
       ELSE /\ quotes' = [quotes EXCEPT ![q].status = "Rejected",
                                        ![q].responded_at = Some(now),
                                        ![q].customer_notes = reason]
            /\ Respond("ok")
    /\ UNCHANGED <<users, cart_items, next_cart_id, orders, added_products, uploads, now, sess>>

reject_quote(u, q, reason) ==
    /\ q \in DOMAIN quotes
    /\ IF quotes[q].user_id # u
       THEN /\ Respond("403")
            /\ UNCHANGED quotes
       ELSE IF quotes[q].status # "Quoted"
       THEN /\ Respond("cannot_be_rejected")
            /\ UNCHANGED quotes
       ELSE /\ quotes' = [quotes EXCEPT ![q].status = "Rejected",
                                        ![q].responded_at = Some(now),
                                        ![q].customer_notes = reason]
            /\ Respond("ok")
    /\ UNCHANGED <<users, cart_items, next_cart_id, orders, added_products, uploads, now, sess>>

---------------------------------------------------------------------------
(* Contact form and back office *)

\* contact_order entered as an order already confirmed
contact_order_confirmed(actor) ==
    [user_id |-> IF actor = Guest THEN None ELSE Some(actor),
     quote_request_id |-> None,
     items_json |-> None,
     subtotal |-> Some(0),
     discount |-> 0,
     delivery_fee |-> 0,
     total |-> Some(0),
     status |-> "Confirmed"]

\* the Order of submit_order: the column defaults, the user when logged in
contact_order(actor) ==
    [user_id |-> IF actor = Guest THEN None ELSE Some(actor),
     quote_request_id |-> None,
     items_json |-> None,
     subtotal |-> Some(0),
     discount |-> 0,
     delivery_fee |-> 0,
     total |-> Some(0),
     status |-> "New"]

\* complete: name, email and message are all filled in
submit_order(actor, complete) ==
    /\ IF ~complete
       THEN /\ Respond("missing_fields")
            /\ UNCHANGED orders
       ELSE /\ Len(orders) < MaxOrders
            /\ Cardinality({o \in DOMAIN orders : orders[o].quote_request_id = None})
                  < MaxContactOrders
            /\ orders' = Append(orders, contact_order(actor))
            /\ Respond("ok")
    /\ UNCHANGED <<users, cart_items, next_cart_id, quotes, added_products, uploads, now, sess>>

admin_order_detail(o, new_status) ==
    /\ o \in DOMAIN orders
    /\ IF new_status \in {"New", "Confirmed", "In Progress", "Completed", "Cancelled"}
       THEN /\ orders' = [orders EXCEPT ![o].status = new_status]
            /\ Respond("ok")
       ELSE /\ Respond("invalid_status")
            /\ UNCHANGED orders
    /\ UNCHANGED <<users, cart_items, next_cart_id, quotes, added_products, uploads, now, sess>>

admin_add_product(product) ==
    /\ Len(added_products) < MaxProducts
    /\ added_products' = Append(added_products, product)
    /\ Respond("ok")
    /\ UNCHANGED <<users, cart_items, next_cart_id, quotes, orders, uploads, now, sess>>

\* a day passes
Tick ==
    /\ now < MaxTime
    /\ now' = now + 1
    /\ UNCHANGED <<db, uploads, sess, response>>


---------------------------------------------------------------------------
(* accept_quote served by two workers at once: each request loads the      *)
(* quote row (line 779) and the current_user row into its own session,     *)
(* decides on what it loaded and writes at its commit (line 829).  No lock *)
(* or version column orders the two.                                       *)

accept_load(w, u, q) ==
    /\ sess[w] = << >>
    /\ q \in DOMAIN quotes
    /\ sess' = [sess EXCEPT ![w] = <<[user_id |-> u, quote_id |-> q,
                                     quote |-> quotes[q], user |-> users[u]]>>]
    /\ UNCHANGED <<db, uploads, now, response>>

accept_commit(w) ==
    /\ sess[w] # << >>
    /\ LET s == sess[w][1] IN accept_body(s.user_id, s.quote_id, s.quote, s.user)
    /\ sess' = [sess EXCEPT ![w] = << >>]
    /\ UNCHANGED now

---------------------------------------------------------------------------
(* request_quote step by step.  The handler reads the cart (line 712),     *)
(* puts the new QuoteRequest in its session (line 744), marks each loaded  *)
(* row deleted (lines 746-747) and commits (line 749).  Nothing is flushed *)
(* before the commit, which sends the INSERT and the DELETEs in one        *)
(* transaction; a request that dies earlier leaves its session behind and  *)
(* the store as it was.                                                    *)

submit_load(w, u) ==
    /\ sess[w] = << >>
    /\ LET rows == query_cart(u) IN
         IF rows = << >>
         THEN /\ Respond("cart_empty")
              /\ UNCHANGED sess
         ELSE /\ sess' = [sess EXCEPT ![w] = <<[user_id |-> u, rows |-> rows,
                                                added |-> None, deleted |-> {}]>>]
              /\ UNCHANGED response
    /\ UNCHANGED <<db, uploads, now>>

\* db.session.add with every statement committed on its own
submit_add_autocommit(w) ==
    /\ sess[w] # << >>
    /\ sess[w][1].added = None
    /\ Len(quotes) < MaxSubmits
    /\ quotes' = Append(quotes, new_quote(sess[w][1].user_id, sess[w][1].rows))
    /\ sess' = [sess EXCEPT ![w][1].added =
                    Some(new_quote(sess[w][1].user_id, sess[w][1].rows))]
    /\ UNCHANGED <<users, cart_items, next_cart_id, orders, added_products, uploads,
                   now, response>>

\* db.session.add(quote_request)
submit_add(w) ==
    /\ sess[w] # << >>
    /\ sess[w][1].added = None
    /\ sess' = [sess EXCEPT ![w][1].added =
                    Some(new_quote(sess[w][1].user_id, sess[w][1].rows))]
    /\ UNCHANGED <<db, uploads, now, response>>

\* one turn of the loop: db.session.delete(item)
submit_delete(w) ==
    /\ sess[w] # << >>
    /\ sess[w][1].added # None
    /\ \E i \in DOMAIN sess[w][1].rows :
          /\ sess[w][1].rows[i].id \notin sess[w][1].deleted
          /\ \A j \in 1..(i - 1) : sess[w][1].rows[j].id \in sess[w][1].deleted
          /\ sess' = [sess EXCEPT ![w][1].deleted = @ \cup {sess[w][1].rows[i].id}]
    /\ UNCHANGED <<db, uploads, now, response>>

\* the commit of a submit that clears the whole cart table
submit_commit_clearing_all(w) ==
    /\ sess[w] # << >>
    /\ sess[w][1].added # None
    /\ sess[w][1].deleted = {sess[w][1].rows[i].id : i \in DOMAIN sess[w][1].rows}
    /\ Len(quotes) < MaxSubmits
    /\ quotes' = Append(quotes, Val(sess[w][1].added))
    /\ cart_items' = << >>
    /\ sess' = [sess EXCEPT ![w] = << >>]
    /\ Respond("ok")
    /\ UNCHANGED <<users, next_cart_id, orders, added_products, uploads, now>>

\* db.session.commit()
submit_commit(w) ==
    /\ sess[w] # << >>
    /\ sess[w][1].added # None
    /\ sess[w][1].deleted = {sess[w][1].rows[i].id : i \in DOMAIN sess[w][1].rows}
    /\ Len(quotes) < MaxSubmits
    /\ quotes' = Append(quotes, Val(sess[w][1].added))
    /\ cart_items' = RemoveRows(cart_items, sess[w][1].deleted)
    /\ sess' = [sess EXCEPT ![w] = << >>]
    /\ Respond("ok")
    /\ UNCHANGED <<users, next_cart_id, orders, added_products, uploads, now>>

\* the request dies before its commit (an exception, a killed worker): the
\* session is rolled back and thrown away
abort(w) ==
    /\ sess[w] # << >>
    /\ sess' = [sess EXCEPT ![w] = << >>]
    /\ Respond("500")
    /\ UNCHANGED <<db, uploads, now>>

---------------------------------------------------------------------------
(* Specifications *)

\* The quote lifecycle, requests served one at a time.  The lifecycle
\* handlers never read a cart row's product or quantity, so the carts here
\* hold one kind of item; CartSpec varies them.
Next ==
    \/ \E u \in Customers : add_to_cart(u, 1, 1, FALSE)
    \/ \E u \in Customers : request_quote(u)
    \/ \E q \in 1..MaxQuotes, qp \in QuotedPrices, d \in Discounts,
          f \in DeliveryFees, vd \in ValidDays : admin_quote_detail(q, qp, d, f, vd)
    \/ \E u \in Customers, q \in 1..MaxQuotes : accept_quote(u, q)
    \/ \E u \in Customers, q \in 1..MaxQuotes, reason \in Reasons :
          reject_quote(u, q, reason)
    \/ Tick

Spec == Init /\ [][Next]_vars

\* The cart store and submit, requests served one at a time.
CartNext ==
    \/ \E u \in Customers, p \in Products, n \in Quantities, upload \in BOOLEAN :
          add_to_cart(u, p, n, upload)
    \/ \E u \in Customers, i \in 1..MaxCartItems, n \in Quantities :
          update_cart_item(u, i, n)
    \/ \E u \in Customers, i \in 1..MaxCartItems, removable \in BOOLEAN :
          remove_from_cart(u, i, removable)
    \/ \E u \in Customers : request_quote(u)

CartSpec == Init /\ [][CartNext]_vars

\* The owner's accepts on two workers, interleaved with each other and with
\* pricing, each liable to die before its commit; the clock stands still.
RaceNext ==
    \/ \E u \in Customers : add_to_cart(u, 1, 1, FALSE)
    \/ \E u \in Customers : request_quote(u)
    \/ \E q \in 1..MaxQuotes, qp \in QuotedPrices, d \in Discounts,
          f \in DeliveryFees : admin_quote_detail(q, qp, d, f, 1)
    \/ \E w \in Workers, q \in DOMAIN quotes : accept_load(w, quotes[q].user_id, q)
    \/ \E w \in Workers : accept_commit(w)
    \/ \E w \in Workers : abort(w)

RaceSpec == Init /\ [][RaceNext]_vars

\* Submits on two workers, step by step, with crashes and with the cart
\* handlers of the same customers in between.  Every cart row comes with a
\* design file, whose name tells the rows apart in the snapshots.
SubmitNext ==
    \/ \E u \in Customers : add_to_cart(u, 1, 1, TRUE)
    \/ \E u \in Customers, i \in 1..MaxCartItems : remove_from_cart(u, i, TRUE)
    \/ \E w \in Workers, u \in Customers : submit_load(w, u)
    \/ \E w \in Workers : submit_add(w)
    \/ \E w \in Workers : submit_delete(w)
    \/ \E w \in Workers : submit_commit(w)
    \/ \E w \in Workers : abort(w)

SubmitSpec == Init /\ [][SubmitNext]_vars

\* Two customers side by side: each fills a cart, submits (step by step,
\* so that both can have a quote), gets a price and answers it.
FrameNext ==
    \/ \E u \in Customers : add_to_cart(u, 1, 1, FALSE)
    \/ \E w \in Workers, u \in Customers : submit_load(w, u)
    \/ \E w \in Workers : submit_add(w)
    \/ \E w \in Workers : submit_delete(w)
    \/ \E w \in Workers : submit_commit(w)
    \/ \E q \in 1..MaxSubmits, qp \in QuotedPrices, f \in DeliveryFees :
          admin_quote_detail(q, qp, 1, f, 1)
    \/ \E u \in Customers, q \in 1..MaxSubmits : accept_quote(u, q)
    \/ \E u \in Customers, q \in 1..MaxSubmits, reason \in Reasons :
          reject_quote(u, q, reason)

FrameSpec == Init /\ [][FrameNext]_vars

\* The tier computation on its own: customer 1 with any number of earlier
\* orders, customer 2 new, each further order credited as accept_quote credits it (lines
\* 825-827, for a quote whose total is 0).
TierInit ==
    /\ \E n \in 0..MaxTotalOrders :
          users = [u \in Customers |->
                      update_tier([total_orders |-> IF u = 1 THEN n ELSE 0,
                                   total_spent |-> 0, customer_tier |-> "New"])]
    /\ cart_items = << >>
    /\ next_cart_id = 1
    /\ quotes = << >>
    /\ orders = << >>
    /\ added_products = << >>
    /\ uploads = {}
    /\ now = 0
    /\ sess = [w \in Workers |-> << >>]
    /\ response = "ok"

credit_order(u) ==
    /\ users[u].total_orders < MaxTotalOrders
    /\ users' = [users EXCEPT ![u] = credited(@, [total_price |-> Some(0)])]
    /\ UNCHANGED <<cart_items, next_cart_id, quotes, orders, added_products, uploads,
                   now, sess, response>>

TierNext == \E u \in Customers : credit_order(u)

TierSpec == TierInit /\ [][TierNext]_vars

\* Every handler that writes, requests served one at a time, on one clock
\* day and one price list.
ShopNext ==
    \/ \E u \in Customers, p \in DOMAIN catalogue : add_to_cart(u, p, 1, FALSE)
    \/ \E u \in Customers : request_quote(u)
    \/ \E q \in 1..MaxQuotes, qp \in QuotedPrices, f \in DeliveryFees :
          admin_quote_detail(q, qp, 1, f, 1)
    \/ \E u \in Customers, q \in 1..MaxQuotes : accept_quote(u, q)
    \/ \E u \in Customers, q \in 1..MaxQuotes, reason \in Reasons :
          reject_quote(u, q, reason)
    \/ \E a \in Actors, complete \in BOOLEAN : submit_order(a, complete)
    \/ \E o \in 1..MaxOrders, st \in OrderStatuses : admin_order_detail(o, st)
    \/ \E product \in NewProducts : admin_add_product(product)

ShopSpec == Init /\ [][ShopNext]_vars

---------------------------------------------------------------------------
(* Claims *)

C2_OneOrderPerQuote ==
    \A i, j \in DOMAIN orders :
        (i # j /\ orders[i].quote_request_id # None)
        => orders[i].quote_request_id # orders[j].quote_request_id

\* C3: an accept of a quote that already has an Order fails: orders, quotes
\* and customer statistics stay as they were.
C3_SecondAcceptFails ==
    [][\A u \in Customers : \A q \in DOMAIN quotes :
         (/\ accept_quote(u, q)
          /\ \E o \in DOMAIN orders : orders[o].quote_request_id = Some(q))
         => (/\ response' # "ok"
             /\ orders' = orders
             /\ quotes' = quotes
             /\ users' = users)]_vars

LegalEdges ==
    {<<"Pending", "Quoted">>, <<"Quoted", "Converted">>,
     <<"Quoted", "Rejected">>, <<"Quoted", "Expired">>}

\* C5: a quote's status changes only along Pending->Quoted,
\* Quoted->Converted, Quoted->Rejected and Quoted->Expired, so Converted,
\* Rejected and Expired are never left.
C5_StatusEdges ==
    [][\A q \in DOMAIN quotes :
         quotes'[q].status # quotes[q].status
         => <<quotes[q].status, quotes'[q].status>> \in LegalEdges]_vars

\* C6: pricing a quote that is not Pending fails and leaves the quote row as
\* it was.
C6_PricingOnlyWhenPending ==
    [][\A q \in DOMAIN quotes : \A qp \in QuotedPrices : \A d \in Discounts :
       \A f \in DeliveryFees : \A vd \in ValidDays :
         (admin_quote_detail(q, qp, d, f, vd) /\ quotes[q].status # "Pending")
         => (response' # "ok" /\ quotes'[q] = quotes[q])]_vars

\* C7: pricing a Pending quote stores the three amounts, sets total_price to
\* quoted_price - discount_applied + delivery_fee and valid_until to
\* now + valid_days, and makes the quote Quoted.
C7_PricingPendingQuote ==
    [][\A q \in DOMAIN quotes : \A qp \in QuotedPrices : \A d \in Discounts :
       \A f \in DeliveryFees : \A vd \in ValidDays :
         (admin_quote_detail(q, qp, d, f, vd) /\ quotes[q].status = "Pending")
         => (/\ quotes'[q].quoted_price = Some(qp)
             /\ quotes'[q].discount_applied = d
             /\ quotes'[q].delivery_fee = f
             /\ quotes'[q].total_price = Some(qp - d + f)
             /\ quotes'[q].valid_until = Some(now + vd)
             /\ quotes'[q].status = "Quoted")]_vars

\* a quote priced 2 - 1 + 1 for one day, not yet answered
C7_Witness ==
    \E q \in DOMAIN quotes :
        /\ quotes[q].status = "Quoted"
        /\ quotes[q].quoted_price = Some(2)
        /\ quotes[q].discount_applied = 1
        /\ quotes[q].delivery_fee = 1
        /\ quotes[q].total_price = Some(2)
        /\ quotes[q].valid_until = Some(now + 1)
        /\ orders = << >>

\* C8: no quote ever holds a negative total_price (pricing inputs with a
\* negative total are refused).
C8_NoNegativeTotal ==
    \A q \in DOMAIN quotes :
        quotes[q].total_price # None => Val(quotes[q].total_price) >= 0

\* the customer's cart rows in the order they were added (ascending id)
RECURSIVE AddedFrom(_, _)
AddedFrom(u, id) ==
    IF id >= next_cart_id THEN << >>
    ELSE (IF \E i \in DOMAIN cart_items :
                cart_items[i].id = id /\ cart_items[i].user_id = u
          THEN <<cart_items[Index(cart_items, id)]>>
          ELSE << >>) \o AddedFrom(u, id + 1)

\* C9: a submit with N >= 1 items in the customer's cart appends one Pending
\* quote whose snapshot has N entries, one per cart item in the order the
\* items were added, and empties that customer's cart.
C9_SubmitSnapshotsInOrder ==
    [][\A u \in Customers :
         LET mine == AddedFrom(u, 1) IN
         (request_quote(u) /\ mine # << >>)
         => (/\ Len(quotes') = Len(quotes) + 1
             /\ SubSeq(quotes', 1, Len(quotes)) = quotes
             /\ quotes'[Len(quotes')].status = "Pending"
             /\ quotes'[Len(quotes')].user_id = u
             /\ quotes'[Len(quotes')].items_json =
                   [i \in DOMAIN mine |->
                       [product_id |-> mine[i].product_id,
                        product_name |-> products[mine[i].product_id].name,
                        quantity |-> mine[i].quantity,
                        design_file |-> mine[i].design_file,
                        base_price |-> products[mine[i].product_id].base_price]]
             /\ SelectRows(cart_items', u) = << >>)]_vars

\* C10: a submit with an empty cart is refused and changes no cart, quote,
\* order or customer row.
C10_EmptyCartRefused ==
    [][\A u \in Customers :
         (request_quote(u) /\ SelectRows(cart_items, u) = << >>)
         => (/\ response' = "cart_empty"
             /\ quotes' = quotes
             /\ cart_items' = cart_items
             /\ orders' = orders
             /\ users' = users)]_vars

\* an empty-cart submit was refused while another customer's cart holds an item
C10_Witness ==
    /\ response = "cart_empty"
    /\ quotes = << >>
    /\ cart_items # << >>

\* C11: a submit is all or nothing.  Every step of a request_quote before its
\* commit, and a crash at any of them, leaves the stored quotes and carts as
\* they were; the commit appends the quote and removes every cart row the
\* quote snapshotted, so no stored quote has a snapshotted row left in the
\* cart.
C11_SubmitAtomic ==
    [][\A w \in Workers :
         /\ (submit_add(w) \/ submit_delete(w) \/ abort(w))
            => (quotes' = quotes /\ cart_items' = cart_items)
         /\ submit_commit(w)
            => (/\ quotes' = Append(quotes, new_quote(sess[w][1].user_id,
                                                      sess[w][1].rows))
                /\ \A i \in DOMAIN sess[w][1].rows : \A j \in DOMAIN cart_items' :
                      cart_items'[j].id # sess[w][1].rows[i].id)
         /\ (quotes' # quotes \/ Len(cart_items') < Len(cart_items))
            => (\/ \E v \in Workers : submit_commit(v)
                \/ \E u \in Customers, i \in 1..MaxCartItems :
                      remove_from_cart(u, i, TRUE))]_vars

\* a submit died before its commit: the store has no quote and the cart
\* still holds its rows
C11_Witness ==
    /\ response = "500"
    /\ quotes = << >>
    /\ cart_items # << >>
    /\ \A w \in Workers : sess[w] = << >>

\* C12: in every stored state a quote is Converted exactly when an Order
\* with its id as quote_request_id exists (an accept that fails before its
\* commit leaving nothing behind).
C12_ConvertedIffOrder ==
    \A q \in DOMAIN quotes :
        quotes[q].status = "Converted"
        <=> \E o \in DOMAIN orders : orders[o].quote_request_id = Some(q)

\* C13: the item snapshot of a stored quote never changes, whatever cart,
\* pricing, accept, reject, contact-form, order-admin or product request is
\* served.
C13_SnapshotFrozen ==
    [][\A q \in DOMAIN quotes :
         /\ q \in DOMAIN quotes'
         /\ quotes'[q].items_json = quotes[q].items_json]_vars

\* a quote of the banner at its first price was converted, its order was
\* cancelled by the admin and a banner at another price was added since
C13_Witness ==
    \E q \in DOMAIN quotes : \E o \in DOMAIN orders :
        /\ quotes[q].status = "Converted"
        /\ quotes[q].items_json[1].base_price = products[1].base_price
        /\ orders[o].quote_request_id = Some(q)
        /\ orders[o].status = "Cancelled"
        /\ added_products # << >>

\* C14: every Order linked to a quote holds that quote's quoted_price,
\* discount_applied, delivery_fee, total_price and items_json, in every
\* reachable state.
C14_OrderCopiesQuote ==
    \A o \in DOMAIN orders :
        orders[o].quote_request_id # None
        => LET quote == quotes[Val(orders[o].quote_request_id)] IN
             /\ orders[o].subtotal = quote.quoted_price
             /\ orders[o].discount = quote.discount_applied
             /\ orders[o].delivery_fee = quote.delivery_fee
             /\ orders[o].total = quote.total_price
             /\ orders[o].items_json = quote.items_json

\* C15: after a successful accept the quote's order_id is the id the store
\* gave the Order created for it, and only Converted quotes have an order_id.
C15_OrderIdLinksOrder ==
    [][/\ \A u \in Customers : \A q \in DOMAIN quotes :
            (accept_quote(u, q) /\ response' = "ok")
            => quotes'[q].order_id = Some(Len(orders'))
       /\ \A q \in DOMAIN quotes' :
            quotes'[q].order_id # None => quotes'[q].status = "Converted"]_vars

\* C16: an accept or a reject by a customer who does not own the quote is
\* answered 403 whatever the quote's status, and leaves the quotes, the
\* orders and the customer statistics as they were.
C16_ForbiddenForNonOwner ==
    [][\A u \in Customers : \A q \in DOMAIN quotes :
         quotes[q].user_id # u
         => /\ accept_quote(u, q)
               => (/\ response' = "403"
                   /\ quotes' = quotes /\ orders' = orders /\ users' = users)
            /\ \A reason \in Reasons :
                 reject_quote(u, q, reason)
                 => (/\ response' = "403"
                     /\ quotes' = quotes /\ orders' = orders
                     /\ users' = users)]_vars

\* a request on a Converted quote was answered 403
C16_Witness ==
    /\ response = "403"
    /\ \E q \in DOMAIN quotes : quotes[q].status = "Converted"

\* C17: a reject by the owner of a Quoted quote makes it Rejected with the
\* given reason and responded_at = now, creates no Order and changes no
\* customer statistics; on a quote that is not Quoted it is refused and the
\* quote stays as it was.
C17_RejectByOwner ==
    [][\A u \in Customers : \A q \in DOMAIN quotes : \A reason \in Reasons :
         (reject_quote(u, q, reason) /\ quotes[q].user_id = u)
         => /\ orders' = orders
            /\ users' = users
            /\ IF quotes[q].status = "Quoted"
               THEN /\ response' = "ok"
                    /\ quotes' = [quotes EXCEPT ![q].status = "Rejected",
                                                ![q].customer_notes = reason,
                                                ![q].responded_at = Some(now)]
               ELSE /\ response' = "cannot_be_rejected"
                    /\ quotes' = quotes]_vars

\* a priced quote was rejected today with the customer's reason
C17_Witness ==
    \E q \in DOMAIN quotes :
        /\ quotes[q].status = "Rejected"
        /\ quotes[q].customer_notes \in Reasons
        /\ quotes[q].responded_at = Some(now)
        /\ quotes[q].total_price # None
        /\ orders = << >>
        /\ response = "ok"

\* C18: for every total_orders >= 0 the tier is one of New, Bronze, Silver,
\* Gold, VIP with discount 0, 5, 10, 15, 20: New below 5, Bronze on 5..14,
\* Silver on 15..29, Gold on 30..49, VIP from 50 on; and no smaller
\* total_orders has a larger discount.
C18_TierTable ==
    \A u \in Customers :
        LET n == users[u].total_orders
            t == users[u].customer_tier
            d == discount_percent(users[u])
        IN /\ t \in {"New", "Bronze", "Silver", "Gold", "VIP"}
           /\ (n < 5) <=> (t = "New" /\ d = 0)
           /\ (5 <= n /\ n <= 14) <=> (t = "Bronze" /\ d = 5)
           /\ (15 <= n /\ n <= 29) <=> (t = "Silver" /\ d = 10)
           /\ (30 <= n /\ n <= 49) <=> (t = "Gold" /\ d = 15)
           /\ (n >= 50) <=> (t = "VIP" /\ d = 20)
           /\ \A m \in 0..n :
                 discount_percent(update_tier([users[u] EXCEPT !.total_orders = m])) <= d

\* one customer stands on the threshold 50 as VIP, the other just below it
\* as Gold
C18_Witness ==
    /\ users[1].total_orders = 50 /\ users[1].customer_tier = "VIP"
    /\ users[2].total_orders = 49 /\ users[2].customer_tier = "Gold"

\* C19: in every reachable state each customer's stored customer_tier is the
\* tier computed from the stored total_orders.
C19_TierMatchesOrders ==
    \A u \in Customers : users[u].customer_tier = tier_of(users[u].total_orders)

\* C20: a contact-form submit, by a guest or by a logged-in customer,
\* appends an Order with status New, subtotal, discount, delivery_fee and
\* total 0 and no quote link, and leaves every customer's statistics and
\* every quote as they were.
C20_ContactOrderIsBare ==
    [][\A a \in Actors : \A complete \in BOOLEAN :
         submit_order(a, complete)
         => /\ users' = users
            /\ quotes' = quotes
            /\ IF complete
               THEN /\ Len(orders') = Len(orders) + 1
                    /\ SubSeq(orders', 1, Len(orders)) = orders
                    /\ orders'[Len(orders')].status = "New"
                    /\ orders'[Len(orders')].subtotal = Some(0)
                    /\ orders'[Len(orders')].discount = 0
                    /\ orders'[Len(orders')].delivery_fee = 0
                    /\ orders'[Len(orders')].total = Some(0)
                    /\ orders'[Len(orders')].quote_request_id = None
                    /\ orders'[Len(orders')].user_id =
                          (IF a = Guest THEN None ELSE Some(a))
               ELSE orders' = orders]_vars

\* customer 1 sent the contact form after an order from a quote made them
\* Bronze: the new order is bare and total_orders is still 5
C20_Witness ==
    /\ Len(orders) = 2
    /\ orders[1].quote_request_id # None
    /\ orders[2].quote_request_id = None
    /\ orders[2].user_id = Some(1)
    /\ orders[2].status = "New"
    /\ orders[2].total = Some(0)
    /\ users[1].total_orders = 5
    /\ users[1].customer_tier = "Bronze"
    /\ response = "ok"

\* C21: every Order with status Confirmed is linked to a quote, in every
\* reachable state; an Order of the contact form is never Confirmed.
C21_ConfirmedOnlyViaQuote ==
    \A o \in DOMAIN orders :
        orders[o].status = "Confirmed" => orders[o].quote_request_id # None

\* C22: add_to_cart and update_cart_item store the larger of the requested
\* quantity and the product's min_quantity, so every cart row holds at least
\* its product's min_quantity.
C22_QuantityClamped ==
    [][/\ \A u \in Customers : \A p \in Products : \A n \in Quantities :
          \A upload \in BOOLEAN :
            add_to_cart(u, p, n, upload)
            => cart_items'[Len(cart_items')].quantity =
                  (IF n < products[p].min_quantity THEN products[p].min_quantity ELSE n)
       /\ \A u \in Customers : \A id \in CartIds : \A n \in Quantities :
            (update_cart_item(u, id, n) /\ cart_items[Index(cart_items, id)].user_id = u)
            => LET p == cart_items[Index(cart_items, id)].product_id IN
                 /\ response' = "ok"
                 /\ cart_items'[Index(cart_items', id)].quantity =
                       (IF n < products[p].min_quantity
                        THEN products[p].min_quantity ELSE n)
       /\ \A i \in DOMAIN cart_items' :
            cart_items'[i].quantity >= products[cart_items'[i].product_id].min_quantity]_vars

\* a cart with a polo-shirt row at its minimum of 2 and a banner row above
\* its minimum of 1
C22_Witness ==
    \E i, j \in DOMAIN cart_items :
        /\ cart_items[i].product_id = 2 /\ cart_items[i].quantity = 2
        /\ cart_items[j].product_id = 1 /\ cart_items[j].quantity = 2

C24_RemoveAlwaysDeletes ==
    [][\A u \in Customers : \A id \in CartIds :
         LET owner == cart_items[Index(cart_items, id)].user_id IN
         /\ \A removable \in BOOLEAN :
              remove_from_cart(u, id, removable)
              => IF owner = u
                 THEN /\ response' = "ok"
                      /\ cart_items' = RemoveRows(cart_items, {id})
                      /\ \A j \in DOMAIN cart_items' : cart_items'[j].id # id
                 ELSE /\ response' = "403"
                      /\ cart_items' = cart_items
                      /\ uploads' = uploads
         /\ \A n \in Quantities :
              (update_cart_item(u, id, n) /\ owner # u)
              => (response' = "403" /\ cart_items' = cart_items)]_vars

\* a row that came with a design file was removed although the file could
\* not be deleted: the file is still in the folder, the row is gone
C24_Witness ==
    /\ response = "ok"
    /\ quotes = << >>
    /\ \E f \in uploads : f \notin CartIds

\* what the first n orders linked to a quote add up to for customer u
RECURSIVE LinkedOrders(_, _)
LinkedOrders(u, n) ==
    IF n = 0 THEN [count |-> 0, total |-> 0]
    ELSE LET rest == LinkedOrders(u, n - 1) IN
         IF orders[n].quote_request_id # None /\ orders[n].user_id = Some(u)
         THEN [count |-> rest.count + 1, total |-> rest.total + Val(orders[n].total)]
         ELSE rest

\* C25: in every reachable state, also when accepts interleave, each
\* customer's total_orders is the number of their Orders linked to a quote
\* (on top of the orders they came with) and total_spent is the sum of those
\* Orders' totals.
C25_StatsMatchOrders ==
    \A u \in Customers :
        /\ users[u].total_orders = PriorOrders[u] + LinkedOrders(u, Len(orders)).count
        /\ users[u].total_spent = LinkedOrders(u, Len(orders)).total

\* the snapshot entries and the cart rows that carry design file f
Snapshotted(f) ==
    {e \in (DOMAIN quotes) \X (1..MaxCartItems) :
        e[2] \in DOMAIN quotes[e[1]].items_json
        /\ quotes[e[1]].items_json[e[2]].design_file = Some(f)}

InCart(f) == {i \in DOMAIN cart_items : cart_items[i].design_file = Some(f)}

\* C26: with submits interleaved with each other and with cart requests,
\* every cart item that was added and not removed by its owner is either in
\* exactly one quote's snapshot or still in the cart: never in two
\* snapshots, never gone without a snapshot.
C26_NoItemLostOrDuplicated ==
    \A f \in uploads : Cardinality(Snapshotted(f)) + Cardinality(InCart(f)) = 1

\* what a request of customer u must leave alone, and whom the rows it adds
\* belong to
OthersUntouched(u) ==
    /\ \A v \in Customers \ {u} :
          /\ SelectRows(cart_items', v) = SelectRows(cart_items, v)
          /\ users'[v] = users[v]
    /\ \A q \in DOMAIN quotes : quotes[q].user_id # u => quotes'[q] = quotes[q]
    /\ \A q \in DOMAIN quotes' \ DOMAIN quotes : quotes'[q].user_id = u
    /\ \A o \in DOMAIN orders : orders'[o] = orders[o]
    /\ \A o \in DOMAIN orders' \ DOMAIN orders :
          /\ orders'[o].user_id = Some(u)
          /\ quotes[Val(orders'[o].quote_request_id)].user_id = u

\* C27: a submit, an accept or a reject by one customer leaves every other
\* customer's cart rows, quotes, orders and statistics as they were; a
\* submit deletes only the submitter's cart rows and the Order of an accept
\* belongs to the quote's owner.
C27_OtherCustomersUntouched ==
    [][\A u \in Customers :
         /\ \A w \in Workers :
              (submit_commit(w) /\ sess[w][1].user_id = u) => OthersUntouched(u)
         /\ \A q \in DOMAIN quotes :
              /\ accept_quote(u, q) => OthersUntouched(u)
              /\ \A reason \in Reasons :
                   reject_quote(u, q, reason) => OthersUntouched(u)]_vars

\* both customers have a quote; the first was accepted and its Order is its
\* owner's, the second is still Pending and its owner's statistics stand
C27_Witness ==
    /\ Len(quotes) = 2
    /\ quotes[1].user_id # quotes[2].user_id
    /\ quotes[1].status = "Converted"
    /\ quotes[2].status = "Pending"
    /\ Len(orders) = 1
    /\ orders[1].user_id = Some(quotes[1].user_id)
    /\ users[quotes[2].user_id].total_orders = PriorOrders[quotes[2].user_id]
    /\ response = "ok"

====
